---- MODULE Spec2Model ----
(***************************************************************************)
(* A model of big_integer (src/bigint/big_integer.h, big_integer.cpp): a   *)
(* sign flag and a little-endian vector of machine words, with the         *)
(* arithmetic, bitwise, shift, division and decimal-text operations        *)
(* translated loop by loop from the C++.                                   *)
(*                                                                         *)
(* Word width.  The C++ stores uint32_t words and computes in uint64_t and *)
(* a 128-bit type.  The model keeps the same relations at a smaller width: *)
(* a word has `bits` bits, the double word 2*bits, the quadruple word      *)
(* 4*bits.  Every "32" of the source is `bits` here, UINT32_MAX is         *)
(* Base - 1, and the decimal chunk (9 digits, 10^9) is the largest power   *)
(* of ten that fits a word, as 10^9 is for 32 bits.  `bits` is a variable  *)
(* fixed by the initial state, so that the arithmetic is checked over all  *)
(* small values at a narrow width and the text conversions at a width that *)
(* holds a two-digit decimal chunk.                                        *)
(*                                                                         *)
(* A big_integer is a record [sign, dig]; dig[i + 1] is the C++ dig[i].    *)
(***************************************************************************)
EXTENDS Integers, Sequences, FiniteSets, TLC

VARIABLES bits, a, b, k, op, res, err, str, nops, ts_pc, ts_a, ts_sign, ts_needZero, ts_result

vars == <<bits, a, b, k, op, res, err, str, nops, ts_pc, ts_a, ts_sign, ts_needZero, ts_result>>

(* ------------------------------ bounds -------------------------------- *)

\* word width of the arithmetic specification
ArithBits == 2
\* word width of the text specification
TextBits == 7
\* operands of the arithmetic specification: |a| <= MaxA, |b| <= MaxB
MaxA == 70
MaxB == 20
\* shift counts 0..MaxShift
MaxShift == 5
\* texts handed to the string constructor have at most MaxStrLen characters
MaxStrLen == 5
\* native integers handed to the int constructor: -MaxInt..MaxInt
MaxInt == 2
\* operations applied in a row in the text specification
MaxOps == 2
\* characters of to_string's buffer the model keeps
MaxOut == 8

(* ------------------------------ words --------------------------------- *)

RECURSIVE Pow(_, _)
Pow(x, n) == IF n = 0 THEN 1 ELSE x * Pow(x, n - 1)

\* one past UINT32_MAX
Base == Pow(2, bits)

\* one past the largest uint64_t
Base2 == Base * Base

Max(x, y) == IF x >= y THEN x ELSE y

Min(x, y) == IF x <= y THEN x ELSE y

RECURSIVE Zeros(_)
\* n zero words
Zeros(n) == IF n = 0 THEN <<>> ELSE Append(Zeros(n - 1), 0)

\* std::vector::resize(n, 0u)
resize(d, n) == IF n <= Len(d) THEN SubSeq(d, 1, n) ELSE d \o Zeros(n - Len(d))

pop_back(d) == SubSeq(d, 1, Len(d) - 1)

(* ---------------------- construction, comparison ---------------------- *)

is_zero(x) == Len(x.dig) = 1 /\ x.dig[1] = 0

positive(x) == x.sign

RECURSIVE normalize_loop(_)
normalize_loop(d) ==
    IF Len(d) > 1 /\ d[Len(d)] = 0 THEN normalize_loop(pop_back(d)) ELSE d

normalize(x) ==
    LET d == normalize_loop(x.dig)
    IN  [sign |-> IF Len(d) = 1 /\ d[1] = 0 THEN TRUE ELSE x.sign, dig |-> d]

\* big_integer()
ctor_default == [sign |-> TRUE, dig |-> <<0>>]

\* big_integer(int a): the magnitude of an int fits one word
ctor_int(n) == [sign |-> n >= 0, dig |-> <<(IF n >= 0 THEN n ELSE -n) % Base>>]

\* big_integer(uint32_t a)
ctor_uint(n) == [sign |-> TRUE, dig |-> <<n % Base>>]

\* big_integer(bool sign, std::vector<uint32_t> digits)
ctor_raw(s, d) == normalize([sign |-> s, dig |-> d])

RECURSIVE compare_loop(_, _, _)
compare_loop(x, y, i) ==
    IF i = 0 THEN 0
    ELSE IF x.dig[i] < y.dig[i] THEN (IF positive(x) THEN -1 ELSE 1)
    ELSE IF x.dig[i] > y.dig[i] THEN (IF positive(x) THEN 1 ELSE -1)
    ELSE compare_loop(x, y, i - 1)

compare(x, y) ==
    IF Len(x.dig) > Len(y.dig) THEN (IF positive(x) THEN 1 ELSE -1)
    ELSE IF Len(x.dig) < Len(y.dig) THEN (IF positive(y) THEN -1 ELSE 1)
    ELSE IF positive(x) # positive(y) THEN (IF positive(x) THEN 1 ELSE -1)
    ELSE compare_loop(x, y, Len(x.dig))

\* operator-() const
operator_neg(x) == IF ~is_zero(x) THEN [x EXCEPT !.sign = ~x.sign] ELSE x

\* abs(const big_integer &)
abs(x) == IF compare(x, ctor_int(0)) < 0 THEN operator_neg(x) ELSE x

(* ----------------------- addition, subtraction ------------------------ *)

RECURSIVE difference_loop(_, _, _, _, _)
difference_loop(d, other, shift, i, take) ==
    IF i + shift < Len(d)
    THEN LET diff == d[shift + i + 1]
                     - (IF i < Len(other) THEN other[i + 1] ELSE 0)
                     - (IF take THEN 1 ELSE 0)
         IN  difference_loop([d EXCEPT ![shift + i + 1] = diff % Base],
                             other, shift, i + 1, diff < 0)
    ELSE d

\* difference(other, shift): the borrow loop, then one pop_back if the last
\* word is zero (whatever the length)
difference(x, other, shift) ==
    LET d == difference_loop(x.dig, other.dig, shift, 0, FALSE)
    IN  [x EXCEPT !.dig = IF d[Len(d)] = 0 THEN pop_back(d) ELSE d]

RECURSIVE add_loop(_, _, _, _)
add_loop(d, rhs, i, carry) ==
    IF i < Len(rhs) \/ carry > 0
    THEN LET cur == carry + d[i + 1] + (IF i < Len(rhs) THEN rhs[i + 1] ELSE 0)
         IN  add_loop([d EXCEPT ![i + 1] = cur % Base], rhs, i + 1, (cur \div Base) % Base)
    ELSE d

RECURSIVE operator_plus_assign(_, _)
RECURSIVE operator_minus_assign(_, _)

operator_plus_assign(x, rhs) ==
    IF is_zero(rhs) THEN x
    ELSE IF x.sign # rhs.sign THEN operator_minus_assign(x, operator_neg(rhs))
    ELSE normalize([x EXCEPT !.dig =
            add_loop(resize(x.dig, Max(Len(x.dig), Len(rhs.dig)) + 1), rhs.dig, 0, 0)])

operator_minus_assign(x, rhs) ==
    IF compare(rhs, ctor_int(0)) = 0 THEN x
    ELSE IF x.sign # rhs.sign THEN operator_plus_assign(x, operator_neg(rhs))
    ELSE IF (positive(x) /\ compare(x, rhs) < 0) \/ (~positive(x) /\ compare(x, rhs) > 0)
    THEN LET temp == operator_minus_assign(rhs, x)
         IN  IF ~is_zero(temp) THEN [temp EXCEPT !.sign = ~temp.sign] ELSE temp
    ELSE normalize(difference(x, rhs, 0))

\* operator++(), operator--()
operator_inc(x) == operator_plus_assign(x, ctor_int(1))

operator_dec(x) == operator_minus_assign(x, ctor_int(1))

\* operator~() const
operator_compl(x) == operator_minus_assign(operator_neg(x), ctor_int(1))

(* --------------------------- multiplication --------------------------- *)

\* Faulty variant of the carry loop of operator*=: the carry is added to the
\* next word only and what escapes that word is lost (violates C12)
mul_carry_loop_one_step(d, carry_pos, carry) ==
    IF carry_pos < Len(d) /\ carry # 0
    THEN <<[d EXCEPT ![carry_pos + 1] = (d[carry_pos + 1] + carry) % Base], 0>>
    ELSE <<d, carry>>

RECURSIVE mul_carry_loop(_, _, _)
\* for (carry_pos = k; carry_pos < dig.size() && carry != 0; carry_pos++)
\* yields <<dig, carry>>
mul_carry_loop(d, carry_pos, carry) ==
    IF carry_pos < Len(d) /\ carry # 0
    THEN LET dig_with_carry == d[carry_pos + 1] + carry
         IN  mul_carry_loop([d EXCEPT ![carry_pos + 1] = dig_with_carry % Base],
                            carry_pos + 1, (dig_with_carry \div Base) % Base)
    ELSE <<d, carry>>

RECURSIVE mul_inner_loop(_, _, _, _, _, _)
\* for (i = kk - 1, j = 0; j < min(kk, rhs.size()); i--, j++); yields <<dig, cur_value>>
mul_inner_loop(d, rhs, kk, j, carry, cur_value) ==
    IF j < Min(kk, Len(rhs))
    THEN LET a_mul_b == (d[kk - 1 - j + 1] * rhs[j + 1] + carry + cur_value) % Base2
             pr == mul_carry_loop(d, kk, (a_mul_b \div Base) % Base)
         IN  mul_inner_loop(pr[1], rhs, kk, j + 1, pr[2], a_mul_b % Base)
    ELSE <<d, cur_value>>

RECURSIVE mul_outer_loop(_, _, _)
\* for (k = dig.size(); k > 0; k--)
mul_outer_loop(d, rhs, kk) ==
    IF kk > 0
    THEN LET pr == mul_inner_loop(d, rhs, kk, 0, 0, 0)
         IN  mul_outer_loop([pr[1] EXCEPT ![kk] = pr[2]], rhs, kk - 1)
    ELSE d

operator_mul_assign(x, rhs) ==
    LET d == resize(x.dig, Len(x.dig) + Len(rhs.dig))
    IN  normalize([sign |-> x.sign = rhs.sign, dig |-> mul_outer_loop(d, rhs.dig, Len(d))])

RECURSIVE mul_inner_loop_self(_, _, _, _, _)
\* the inner loop of x *= x: rhs is *this, so rhs.dig.size() is the size of
\* the resized buffer and rhs[j] reads the buffer being written
mul_inner_loop_self(d, kk, j, carry, cur_value) ==
    IF j < Min(kk, Len(d))
    THEN LET a_mul_b == (d[kk - 1 - j + 1] * d[j + 1] + carry + cur_value) % Base2
             pr == mul_carry_loop(d, kk, (a_mul_b \div Base) % Base)
         IN  mul_inner_loop_self(pr[1], kk, j + 1, pr[2], a_mul_b % Base)
    ELSE <<d, cur_value>>

RECURSIVE mul_outer_loop_self(_, _)
mul_outer_loop_self(d, kk) ==
    IF kk > 0
    THEN LET pr == mul_inner_loop_self(d, kk, 0, 0, 0)
         IN  mul_outer_loop_self([pr[1] EXCEPT ![kk] = pr[2]], kk - 1)
    ELSE d

\* x *= x
operator_mul_assign_self(x) ==
    LET d == resize(x.dig, Len(x.dig) + Len(x.dig))
    IN  normalize([sign |-> x.sign = x.sign, dig |-> mul_outer_loop_self(d, Len(d))])

(* ------------------------------ division ----------------------------- *)

\* is_smaller(other, other_size): despite the name, true when the words of
\* this, read from the top, are not below those of other aligned at other_size
RECURSIVE is_smaller_loop(_, _, _, _)
is_smaller_loop(d, other, other_size, i) ==
    IF i <= Len(d)
    THEN LET idx == other_size - i
             other_dig == IF idx >= 0 /\ idx < Len(other) THEN other[idx + 1] ELSE 0
         IN  IF d[Len(d) - i + 1] # other_dig
             THEN d[Len(d) - i + 1] >= other_dig
             ELSE is_smaller_loop(d, other, other_size, i + 1)
    ELSE TRUE

is_smaller(x, other, other_size) == is_smaller_loop(x.dig, other.dig, other_size, 1)

RECURSIVE div_mod_short_loop(_, _, _, _, _)
\* remainder is a uint64_t; ratio and ratio * rhs are uint32_t
div_mod_short_loop(d, rhs, i, remainder, q) ==
    IF i > 0
    THEN LET shifted == (remainder * Base) % Base2
             r1 == (shifted + d[i]) % Base2
             ratio == (r1 \div rhs) % Base
             r2 == (r1 - ((ratio * rhs) % Base)) % Base2
         IN  div_mod_short_loop(d, rhs, i - 1, r2, [q EXCEPT ![i] = ratio])
    ELSE <<q, remainder>>

\* yields <<quotient, remainder>>, the remainder cast to uint32_t
div_mod_short(x, rhs) ==
    LET pr == div_mod_short_loop(x.dig, rhs, Len(x.dig), 0, resize(<<0>>, Len(x.dig)))
    IN  <<normalize([sign |-> TRUE, dig |-> pr[1]]), pr[2] % Base>>

RECURSIVE div_mod_long_loop(_, _, _, _, _, _, _)
\* x is *this with the pushed zero word, q the quotient; yields <<quotient, *this>>
div_mod_long_loop(x, rhs_abs, denominator, m, n, i, q) ==
    IF i # n
    THEN LET sz == Len(x.dig)
             j == Len(q.dig) - 1 - (i - (m - 1))
             numerator == x.dig[sz] * Base2 + x.dig[sz - 1] * Base + x.dig[sz - 2]
             ratio == (numerator \div denominator) % Base
             to_sub == operator_mul_assign(rhs_abs, ctor_uint(ratio))
             fix == ~is_smaller(x, to_sub, m)
             ratio2 == IF fix THEN (ratio - 1) % Base ELSE ratio
             to_sub2 == IF fix THEN operator_minus_assign(to_sub, rhs_abs) ELSE to_sub
         IN  div_mod_long_loop(difference(x, to_sub2, sz - m), rhs_abs, denominator,
                               m, n, i + 1, [q EXCEPT !.dig[j + 1] = ratio2])
    ELSE <<q, x>>

div_mod_long(x, rhs) ==
    LET quotient == ctor_raw(x.sign = rhs.sign, <<>>)
        q == [quotient EXCEPT !.dig = resize(quotient.dig, Len(x.dig) - Len(rhs.dig) + 1)]
        rhs_abs == abs(rhs)
        this == [x EXCEPT !.dig = Append(x.dig, 0)]
        n == Len(this.dig)
        m == Len(rhs.dig) + 1
        denominator == rhs_abs.dig[Len(rhs_abs.dig)] * Base + rhs_abs.dig[Len(rhs_abs.dig) - 1]
        pr == div_mod_long_loop(this, rhs_abs, denominator, m, n, m - 1, q)
    IN  <<normalize(pr[1]), normalize(pr[2])>>

RECURSIVE div_mod_long_positions(_, _, _, _, _, _)
\* the locals of each pass of the loop of div_mod_long, first pass first:
\* the top m words of *this the pass works on, numerator / denominator
\* before and after the cast to a word, whether the correction ran, and
\* the quotient word and the trial product the pass ends with
div_mod_long_positions(x, rhs_abs, denominator, m, n, i) ==
    IF i # n
    THEN LET sz == Len(x.dig)
             numerator == x.dig[sz] * Base2 + x.dig[sz - 1] * Base + x.dig[sz - 2]
             ratio == (numerator \div denominator) % Base
             to_sub == operator_mul_assign(rhs_abs, ctor_uint(ratio))
             fix == ~is_smaller(x, to_sub, m)
             ratio2 == IF fix THEN (ratio - 1) % Base ELSE ratio
             to_sub2 == IF fix THEN operator_minus_assign(to_sub, rhs_abs) ELSE to_sub
         IN  <<[window |-> SubSeq(x.dig, sz - m + 1, sz),
                estimate |-> numerator \div denominator,
                ratio |-> ratio,
                corrected |-> fix,
                stored |-> ratio2,
                to_sub |-> to_sub2]>>
             \o div_mod_long_positions(difference(x, to_sub2, sz - m), rhs_abs,
                                       denominator, m, n, i + 1)
    ELSE <<>>

\* the passes of div_mod_long(rhs) called on x
div_mod_long_trace(x, rhs) ==
    LET rhs_abs == abs(rhs)
        this == [x EXCEPT !.dig = Append(x.dig, 0)]
        n == Len(this.dig)
        m == Len(rhs.dig) + 1
        denominator == rhs_abs.dig[Len(rhs_abs.dig)] * Base + rhs_abs.dig[Len(rhs_abs.dig) - 1]
    IN  div_mod_long_positions(this, rhs_abs, denominator, m, n, m - 1)

\* operator/= and operator%= reach div_mod_long
takes_long_division(x, rhs) ==
    /\ ~is_zero(rhs)
    /\ ~(Len(rhs.dig) > Len(x.dig) \/ ~is_smaller(x, rhs, Len(x.dig)))
    /\ Len(rhs.dig) # 1

\* an operation either returns a value or throws
Returns(v) == [thrown |-> "none", val |-> v]

Throws(e) == [thrown |-> e]

\* Faulty variant of operator/=: a shortcut for a zero dividend is taken before
\* the divisor is looked at, so 0 / 0 returns 0 (violates C10)
operator_div_assign_zero_dividend_first(x, rhs) ==
    IF is_zero(x) THEN Returns(ctor_int(0))
    ELSE IF is_zero(rhs) THEN Throws("range_error")
    ELSE IF Len(rhs.dig) > Len(x.dig) \/ ~is_smaller(x, rhs, Len(x.dig))
    THEN Returns(ctor_int(0))
    ELSE IF Len(rhs.dig) = 1
    THEN Returns(IF x.sign = rhs.sign THEN div_mod_short(x, rhs.dig[1])[1]
                 ELSE operator_neg(div_mod_short(x, rhs.dig[1])[1]))
    ELSE Returns(div_mod_long(x, rhs)[1])

operator_div_assign(x, rhs) ==
    IF is_zero(rhs) THEN Throws("range_error")
    ELSE IF Len(rhs.dig) > Len(x.dig) \/ ~is_smaller(x, rhs, Len(x.dig))
    THEN Returns(ctor_int(0))
    ELSE IF Len(rhs.dig) = 1
    THEN Returns(IF x.sign = rhs.sign THEN div_mod_short(x, rhs.dig[1])[1]
                 ELSE operator_neg(div_mod_short(x, rhs.dig[1])[1]))
    ELSE Returns(div_mod_long(x, rhs)[1])

\* Faulty variant of operator%=: the short remainder takes the sign of the
\* divisor (violates C7)
operator_mod_assign_divisor_sign(x, rhs) ==
    IF is_zero(rhs) THEN Throws("range_error")
    ELSE IF Len(rhs.dig) = 1
    THEN Returns(IF rhs.sign THEN ctor_uint(div_mod_short(x, rhs.dig[1])[2])
                 ELSE operator_neg(ctor_uint(div_mod_short(x, rhs.dig[1])[2])))
    ELSE Returns(operator_minus_assign(x,
                    operator_mul_assign(operator_div_assign(x, rhs).val, rhs)))

operator_mod_assign(x, rhs) ==
    IF is_zero(rhs) THEN Throws("range_error")
    ELSE IF Len(rhs.dig) = 1
    THEN Returns(IF x.sign THEN ctor_uint(div_mod_short(x, rhs.dig[1])[2])
                 ELSE operator_neg(ctor_uint(div_mod_short(x, rhs.dig[1])[2])))
    ELSE Returns(operator_minus_assign(x,
                    operator_mul_assign(operator_div_assign(x, rhs).val, rhs)))

(* -------------------------- bitwise, shifts --------------------------- *)

\* C++ signed division and remainder truncate toward zero
CDiv(x, y) == IF x >= 0 THEN x \div y ELSE -((-x) \div y)

CMod(x, y) == x - y * CDiv(x, y)

\* ~x on a word
word_not(x) == Base - 1 - x

bit1(f, p, q) ==
    IF f = "and" THEN p * q
    ELSE IF f = "or" THEN Max(p, q)
    ELSE (p + q) % 2

RECURSIVE bit_function_n(_, _, _, _)
bit_function_n(f, x, y, n) ==
    IF n = 0 THEN 0
    ELSE bit1(f, x % 2, y % 2) + 2 * bit_function_n(f, x \div 2, y \div 2, n - 1)

\* std::bit_and / bit_or / bit_xor <uint32_t>
bit_function(f, x, y) == bit_function_n(f, x, y, bits)

RECURSIVE invert_words(_)
invert_words(d) == IF Len(d) = 0 THEN <<>> ELSE <<word_not(Head(d))>> \o invert_words(Tail(d))

\* Faulty variant of transform_to_compl2: no increment after the inversion,
\* i.e. one's complement (violates C9)
transform_to_compl2_no_increment(x, new_size) ==
    IF ~x.sign
    THEN [x EXCEPT !.dig = invert_words(resize(x.dig, new_size))]
    ELSE [x EXCEPT !.dig = resize(x.dig, new_size)]

transform_to_compl2(x, new_size) ==
    IF ~x.sign
    THEN LET y == operator_inc(x)
         IN  [y EXCEPT !.dig = invert_words(resize(y.dig, new_size))]
    ELSE [x EXCEPT !.dig = resize(x.dig, new_size)]

RECURSIVE applier_loop(_, _, _, _, _, _)
applier_loop(lhs, rhs, f, result_sign, result_len, i) ==
    IF i < result_len
    THEN LET wa == IF i < Len(lhs.dig) THEN lhs.dig[i + 1] ELSE 0
             wb == IF i < Len(rhs.dig) THEN rhs.dig[i + 1] ELSE 0
             c  == bit_function(f, wa, wb)
         IN  <<IF ~result_sign THEN word_not(c) ELSE c>>
             \o applier_loop(lhs, rhs, f, result_sign, result_len, i + 1)
    ELSE <<>>

bit_function_applier(lhs0, rhs0, f) ==
    LET result_len == Max(Len(lhs0.dig), Len(rhs0.dig)) + 1
        lhs == transform_to_compl2(lhs0, result_len)
        rhs == transform_to_compl2(rhs0, result_len)
        result_sign == bit_function(f, IF lhs.sign THEN 0 ELSE 1, IF rhs.sign THEN 0 ELSE 1) = 0
        result == ctor_raw(result_sign, applier_loop(lhs, rhs, f, result_sign, result_len, 0))
    IN  IF result_sign THEN result ELSE operator_dec(result)

RECURSIVE bit_shift_loop(_, _, _, _)
\* the words of shifted, from word i up; d is dig of *this
bit_shift_loop(d, shift, size, i) ==
    IF i < size
    THEN LET start_bit == i * bits - shift
             end_bit == (i + 1) * bits - 1 - shift
             start_block == CDiv(start_bit, bits)
             end_block == CDiv(end_bit, bits)
             cnt == CMod(bits - CMod(shift, bits), bits)
             left_block == IF (start_bit < 0 /\ shift >= 0) \/ start_block >= Len(d)
                           THEN 0 ELSE d[start_block + 1]
             right_block == IF (end_bit < 0 /\ shift >= 0) \/ end_block >= Len(d)
                            THEN 0 ELSE d[end_block + 1]
             left2 == left_block \div Pow(2, cnt)
             right2 == right_block % Pow(2, cnt)
         IN  <<((IF cnt # 0 THEN (right2 * Pow(2, bits - cnt)) % Base ELSE 0) + left2) % Base>>
             \o bit_shift_loop(d, shift, size, i + 1)
    ELSE <<>>

\* Faulty variant of bit_shift: the buffer grows by the whole words of the
\* shift only, losing the bits carried into the next word (violates C8)
bit_shift_short_buffer(x, shift) ==
    LET shifted0 == ctor_raw(x.sign, x.dig)
        sdig == IF shift > 0
                THEN resize(shifted0.dig, Len(shifted0.dig) + CDiv(shift, bits))
                ELSE shifted0.dig
        this == transform_to_compl2([x EXCEPT !.sign = TRUE], Len(x.dig))
        shifted == [shifted0 EXCEPT !.dig = bit_shift_loop(this.dig, shift, Len(sdig), 0)]
    IN  normalize(IF shift < 0 /\ ~shifted.sign THEN operator_dec(shifted) ELSE shifted)

bit_shift(x, shift) ==
    LET shifted0 == ctor_raw(x.sign, x.dig)
        sdig == IF shift > 0
                THEN resize(shifted0.dig, Len(shifted0.dig) + CDiv(shift, bits - 1) + 2)
                ELSE shifted0.dig
        this == transform_to_compl2([x EXCEPT !.sign = TRUE], Len(x.dig))
        shifted == [shifted0 EXCEPT !.dig = bit_shift_loop(this.dig, shift, Len(sdig), 0)]
    IN  normalize(IF shift < 0 /\ ~shifted.sign THEN operator_dec(shifted) ELSE shifted)

\* operator<<=(uint32_t), operator>>=(uint32_t)
operator_shl_assign(x, n) == bit_shift(x, n)

operator_shr_assign(x, n) == bit_shift(x, -n)

(* ---------------------------- decimal text ---------------------------- *)

DigitChars == <<"0", "1", "2", "3", "4", "5", "6", "7", "8", "9">>

isdigit(c) == \E i \in 1..10 : DigitChars[i] = c

\* str[i] - '0'
digit_value(c) == (CHOOSE i \in 1..10 : DigitChars[i] = c) - 1

RECURSIVE std_to_string(_)
\* std::to_string(uint32_t)
std_to_string(n) ==
    IF n < 10 THEN <<DigitChars[n + 1]>>
    ELSE Append(std_to_string(n \div 10), DigitChars[(n % 10) + 1])

RECURSIVE reverse(_)
\* std::reverse
reverse(s) == IF Len(s) = 0 THEN <<>> ELSE Append(reverse(Tail(s)), Head(s))

\* Faulty variant of std::string(n, c): the string comes out empty, so a chunk
\* of to_string is never padded with zeros (violates C11)
repeat_empty(n, c) == <<>>

RECURSIVE repeat(_, _)
\* std::string(n, c)
repeat(n, c) == IF n = 0 THEN <<>> ELSE Append(repeat(n - 1, c), c)

\* dig_count: the decimal digits of a chunk, the most whose power of ten fits
\* a word (9 for 32-bit words)
dig_count == Len(std_to_string(Base - 1)) - 1

\* dig_remainder: 10^dig_count (1000000000 for 32-bit words)
dig_remainder == Pow(10, dig_count)

RECURSIVE ctor_string_chunk(_, _, _, _, _)
\* for (len = 9; i < str.size() && len > 0; i++, len--)
\* yields [thrown, i, to_mult, to_add]
ctor_string_chunk(s, i, len, to_mult, to_add) ==
    IF i < Len(s) /\ len > 0
    THEN IF ~isdigit(s[i + 1])
         THEN [thrown |-> "runtime_error", i |-> i, to_mult |-> to_mult, to_add |-> to_add]
         ELSE ctor_string_chunk(s, i + 1, len - 1, (to_mult * 10) % Base,
                                (10 * to_add + digit_value(s[i + 1])) % Base)
    ELSE [thrown |-> "none", i |-> i, to_mult |-> to_mult, to_add |-> to_add]

RECURSIVE ctor_string_loop(_, _, _)
\* for (i = isdigit(str[0]) ? 0 : 1; i < str.size();)
ctor_string_loop(s, i, this) ==
    IF i < Len(s)
    THEN LET c == ctor_string_chunk(s, i, dig_count, 1, 0)
         IN  IF c.thrown # "none" THEN Throws(c.thrown)
             ELSE ctor_string_loop(s, c.i,
                     operator_plus_assign(operator_mul_assign(this, ctor_uint(c.to_mult)),
                                          ctor_uint(c.to_add)))
    ELSE Returns(this)

\* big_integer(const std::string &)
ctor_string(s) ==
    IF Len(s) = 0 THEN Throws("length_error")
    ELSE IF s[1] # "-" /\ s[1] # "+" /\ ~isdigit(s[1]) THEN Throws("runtime_error")
    ELSE LET r == ctor_string_loop(s, IF isdigit(s[1]) THEN 0 ELSE 1, ctor_default)
         IN  IF r.thrown # "none" THEN r
             ELSE LET v == [r.val EXCEPT !.sign = (s[1] # "-")]
                  IN  Returns(IF is_zero(v) THEN [v EXCEPT !.sign = TRUE] ELSE v)

(* ------------------------ the integer denoted ------------------------- *)

RECURSIVE Mag(_)
Mag(d) == IF Len(d) = 0 THEN 0 ELSE d[1] + Base * Mag(Tail(d))

\* the integer a representation denotes
Val(x) == IF x.sign THEN Mag(x.dig) ELSE -Mag(x.dig)

RECURSIVE Words(_)
Words(n) == IF n < Base THEN <<n>> ELSE <<n % Base>> \o Words(n \div Base)

\* the canonical representation of an integer
Rep(n) == [sign |-> n >= 0, dig |-> Words(IF n >= 0 THEN n ELSE -n)]

\* canonical form: at least one word, no leading zero word, no negative zero
Canonical(x) ==
    /\ Len(x.dig) >= 1
    /\ (Len(x.dig) > 1 => x.dig[Len(x.dig)] # 0)
    /\ (x.dig = <<0>> => x.sign)

(* ---------------------------- the machine ----------------------------- *)

Init ==
    /\ bits = ArithBits
    /\ a \in {Rep(n) : n \in -MaxA..MaxA}
    /\ b \in {Rep(n) : n \in -MaxB..MaxB}
    /\ k = 0
    /\ op = "init"
    /\ res = a
    /\ err = "none"
    /\ str = <<>>
    /\ nops = 0
    /\ ts_pc = "idle"
    /\ ts_a = ctor_default
    /\ ts_sign = <<>>
    /\ ts_needZero = 0
    /\ ts_result = <<>>

Idle == UNCHANGED <<bits, a, b, str, nops, ts_pc, ts_a, ts_sign, ts_needZero, ts_result>>

\* a + b
Add ==
    /\ op = "init"
    /\ op' = "add" /\ res' = operator_plus_assign(a, b) /\ k' = 0 /\ err' = "none"
    /\ Idle

\* a - b
Sub ==
    /\ op = "init"
    /\ op' = "sub" /\ res' = operator_minus_assign(a, b) /\ k' = 0 /\ err' = "none"
    /\ Idle

\* a * b
Mul ==
    /\ op = "init"
    /\ op' = "mul" /\ res' = operator_mul_assign(a, b) /\ k' = 0 /\ err' = "none"
    /\ Idle

\* a *= a
MulAssignSelf ==
    /\ op = "init"
    /\ op' = "sqr" /\ res' = operator_mul_assign_self(a) /\ k' = 0 /\ err' = "none"
    /\ Idle

\* a / b
Div ==
    /\ op = "init"
    /\ LET r == operator_div_assign(a, b)
       IN  /\ err' = r.thrown
           /\ res' = IF r.thrown = "none" THEN r.val ELSE res
    /\ op' = "div" /\ k' = 0
    /\ Idle

\* a % b
Mod ==
    /\ op = "init"
    /\ LET r == operator_mod_assign(a, b)
       IN  /\ err' = r.thrown
           /\ res' = IF r.thrown = "none" THEN r.val ELSE res
    /\ op' = "mod" /\ k' = 0
    /\ Idle

\* (a / b) * b + (a % b), for b that is not zero
DivIdentity ==
    /\ op = "init"
    /\ ~is_zero(b)
    /\ res' = operator_plus_assign(
                 operator_mul_assign(operator_div_assign(a, b).val, b),
                 operator_mod_assign(a, b).val)
    /\ op' = "divmod" /\ k' = 0 /\ err' = "none"
    /\ Idle

\* a & b, a | b, a ^ b
Bitwise ==
    /\ op = "init"
    /\ \E f \in {"and", "or", "xor"} :
          op' = f /\ res' = bit_function_applier(a, b, f)
    /\ k' = 0 /\ err' = "none"
    /\ Idle

\* a << n
Shl ==
    /\ op = "init"
    /\ \E n \in 0..MaxShift : k' = n /\ res' = operator_shl_assign(a, n)
    /\ op' = "shl" /\ err' = "none"
    /\ Idle

\* a >> n
Shr ==
    /\ op = "init"
    /\ \E n \in 0..MaxShift : k' = n /\ res' = operator_shr_assign(a, n)
    /\ op' = "shr" /\ err' = "none"
    /\ Idle

\* -a, ~a, ++a, --a
Unary ==
    /\ op = "init"
    /\ \/ op' = "neg" /\ res' = operator_neg(a)
       \/ op' = "compl" /\ res' = operator_compl(a)
       \/ op' = "inc" /\ res' = operator_inc(a)
       \/ op' = "dec" /\ res' = operator_dec(a)
    /\ k' = 0 /\ err' = "none"
    /\ Idle

Next == Add \/ Sub \/ Mul \/ MulAssignSelf \/ Div \/ Mod \/ DivIdentity \/ Bitwise \/ Shl \/ Shr \/ Unary

Spec == Init /\ [][Next]_vars

(* --------------------------- the text machine -------------------------- *)

\* the characters the texts are drawn from
Alphabet == {"-", "+", "0", "1", "9", "x"}

RECURSIVE StringsOfLen(_)
StringsOfLen(n) ==
    IF n = 0 THEN {<<>>}
    ELSE {Append(s, c) : s \in StringsOfLen(n - 1), c \in Alphabet}

Strings == UNION {StringsOfLen(n) : n \in 0..MaxStrLen}

InitText ==
    /\ bits = TextBits
    /\ a = ctor_default
    /\ b = ctor_default
    /\ k = 0
    /\ op = "init"
    /\ res = ctor_default
    /\ err = "none"
    /\ str = <<>>
    /\ nops = 0
    /\ ts_pc = "idle"
    /\ ts_a = ctor_default
    /\ ts_sign = <<>>
    /\ ts_needZero = 0
    /\ ts_result = <<>>

NoToString == UNCHANGED <<ts_pc, ts_a, ts_sign, ts_needZero, ts_result>>

\* big_integer(str)
FromString ==
    /\ op = "init"
    /\ \E s \in Strings :
          /\ str' = s
          /\ LET r == ctor_string(s)
             IN  /\ err' = r.thrown
                 /\ res' = IF r.thrown = "none" THEN r.val ELSE res
    /\ op' = "parse"
    /\ UNCHANGED <<bits, a, b, k, nops>>
    /\ NoToString

\* big_integer(n) for a native int
FromInt ==
    /\ op = "init"
    /\ \E n \in -MaxInt..MaxInt : res' = ctor_int(n)
    /\ op' = "int" /\ err' = "none"
    /\ UNCHANGED <<bits, a, b, k, str, nops>>
    /\ NoToString

\* value -= n: the text handed to the constructor is gone by now
SubInt ==
    /\ op \in {"parse", "int", "sub"} /\ err = "none" /\ ts_pc = "idle"
    /\ nops < MaxOps
    /\ \E n \in -MaxInt..MaxInt : res' = operator_minus_assign(res, ctor_int(n))
    /\ op' = "sub" /\ err' = "none" /\ nops' = nops + 1 /\ str' = <<>>
    /\ UNCHANGED <<bits, a, b, k>>
    /\ NoToString

\* to_string(value), up to its loop
ToStringBegin ==
    /\ op # "init" /\ err = "none" /\ ts_pc = "idle"
    /\ ts_pc' = "loop"
    /\ ts_sign' = IF positive(res) THEN <<>> ELSE <<"-">>
    /\ ts_a' = abs(res)
    /\ ts_needZero' = 0
    /\ ts_result' = <<>>
    /\ UNCHANGED <<bits, a, b, k, op, res, err, str, nops>>

\* one pass of the do-while of to_string and, when it leaves the loop, the rest
ToStringStep ==
    /\ ts_pc = "loop"
    /\ Len(ts_result) < MaxOut
    /\ LET div_and_mod == div_mod_short(ts_a, dig_remainder)
           d == std_to_string(div_and_mod[2])
           t == repeat(ts_needZero, "0")
           result == ts_result \o reverse(d \o t)
       IN  /\ ts_needZero' = dig_count - Len(d)
           /\ ts_a' = div_and_mod[1]
           /\ IF compare(div_and_mod[1], ctor_int(0)) # 0
              THEN ts_pc' = "loop" /\ ts_result' = result
              ELSE ts_pc' = "done" /\ ts_result' = reverse(result \o ts_sign)
    /\ UNCHANGED <<bits, a, b, k, op, res, err, str, nops, ts_sign>>

NextText == FromString \/ FromInt \/ SubInt \/ ToStringBegin \/ ToStringStep

SpecText == InitText /\ [][NextText]_vars

(* ------------------------------ the claims ----------------------------- *)

Abs(n) == IF n >= 0 THEN n ELSE -n

\* the integer quotient rounded toward zero
TruncQuot(x, y) == (IF (x >= 0) = (y >= 0) THEN 1 ELSE -1) * (Abs(x) \div Abs(y))

RECURSIVE BitInt(_, _, _)
\* the integer whose infinite two's-complement pattern is f of those of x and y
BitInt(f, x, y) ==
    IF x \in {0, -1} /\ y \in {0, -1}
    THEN -bit1(f, -x, -y)
    ELSE bit1(f, x % 2, y % 2) + 2 * BitInt(f, x \div 2, y \div 2)

\* C1: whatever an operation returns is in canonical form: at least one word,
\* no leading zero word unless it is the single word 0, and zero is
\* non-negative.
C1_CanonicalForm == (op # "init" /\ err = "none") => Canonical(res)

\* C2: for b that is not zero, a / b is the exact quotient rounded toward
\* zero, and a % b is zero or has the sign of a, with |a % b| < |b|.
C2_TruncatingDivision ==
    /\ (op = "div" /\ err = "none") => Val(res) = TruncQuot(Val(a), Val(b))
    /\ (op = "mod" /\ err = "none") =>
          /\ Abs(Val(res)) < Abs(Val(b))
          /\ Val(res) = 0 \/ res.sign = a.sign

\* C3: a >> k is floor(a / 2^k) for every a and every k >= 0.
C3_RightShiftFloors == op = "shr" => Val(res) = Val(a) \div Pow(2, k)

\* C4: a - a and a + (-a) compare equal to big_integer(0).
C4_SelfCancel ==
    /\ (op = "sub" /\ b = a) => compare(res, ctor_int(0)) = 0
    /\ (op = "add" /\ b = operator_neg(a)) => compare(res, ctor_int(0)) = 0

\* C5: to_string terminates.  Its loop is deterministic in the value it
\* divides, so it can terminate only if no pass goes round again with the
\* value it started the pass with.
C5_ToStringTerminates == [][(ts_pc = "loop" /\ ts_pc' = "loop") => ts_a' # ts_a]_vars

\* texts of the form [+-]?[0-9]+
ValidText(s) ==
    /\ Len(s) >= 1
    /\ LET body == IF s[1] \in {"+", "-"} THEN Tail(s) ELSE s
       IN  Len(body) >= 1 /\ \A i \in 1..Len(body) : isdigit(body[i])

\* C6: the string constructor succeeds exactly on the texts [+-]?[0-9]+ and
\* throws on every other text.
C6_FormatChecked == op = "parse" => ((err = "none") <=> ValidText(str))

\* C7: for b that is not zero, (a / b) * b + (a % b) == a.
C7_DivisionIdentity == op = "divmod" => compare(res, a) = 0

C7_Witness ==
    /\ op = "divmod" /\ compare(res, a) = 0
    /\ ~a.sign /\ b.sign /\ Len(b.dig) >= 2 /\ Len(a.dig) > Len(b.dig)
    /\ ~is_zero(operator_mod_assign(a, b).val)

\* C8: a << k is a * 2^k, in canonical form, for a of either sign.
C8_LeftShift == op = "shl" => (Val(res) = Val(a) * Pow(2, k) /\ Canonical(res))

C8_Witness ==
    /\ op = "shl" /\ ~a.sign /\ k > bits /\ k % bits # 0
    /\ Len(res.dig) > Len(a.dig) + 1
    /\ Val(res) = Val(a) * Pow(2, k)

\* C9: a & b, a | b and a ^ b are the integers whose two's-complement patterns
\* are the bitwise functions of the operands' patterns; a & -1 == a,
\* a | -1 == -1 and a ^ a == 0.
C9_Bitwise ==
    /\ op \in {"and", "or", "xor"} =>
          (Val(res) = BitInt(op, Val(a), Val(b)) /\ Canonical(res))
    /\ (op = "and" /\ b = Rep(-1)) => compare(res, a) = 0
    /\ (op = "or" /\ b = Rep(-1)) => compare(res, Rep(-1)) = 0
    /\ (op = "xor" /\ b = a) => compare(res, ctor_int(0)) = 0

C9_Witness ==
    /\ op = "and" /\ ~a.sign /\ ~b.sign /\ Len(a.dig) >= 2 /\ Len(b.dig) >= 2
    /\ Val(res) = BitInt("and", Val(a), Val(b))
    /\ Val(res) # Val(a) /\ Val(res) # Val(b)

\* C10: a / 0 and a % 0 throw the range error for every a and return nothing.
C10_DivideByZero ==
    (op \in {"div", "mod"} /\ is_zero(b)) => (err = "range_error" /\ res = a)

C10_Witness ==
    /\ op = "mod" /\ is_zero(b) /\ Len(a.dig) >= 2 /\ err = "range_error"

\* the digits of a text without their leading zeros; "0" when all are zeros
RECURSIVE StripZeros(_)
StripZeros(d) ==
    IF Len(d) > 1 /\ Head(d) = "0" THEN StripZeros(Tail(d)) ELSE d

\* the canonical form of a valid text: no sign for zero, "-" for a negative
\* value, no "+", no leading zeros
CanonicalText(s) ==
    LET body == IF s[1] \in {"+", "-"} THEN Tail(s) ELSE s
        d == StripZeros(body)
    IN  IF s[1] = "-" /\ d # <<"0">> THEN <<"-">> \o d ELSE d

\* C11: for every valid decimal text s, to_string(big_integer(s)) is the
\* canonical form of s: no leading zeros except "0", a leading "-" iff the
\* value is negative, every chunk after the first padded with zeros to the
\* chunk width so that no digit is dropped or added.
C11_RoundTrip ==
    (op = "parse" /\ ValidText(str) /\ ts_pc = "done") =>
        ts_result = CanonicalText(str)

\* a text of three chunks whose two lower chunks both need padding
C11_Witness ==
    /\ op = "parse" /\ ts_pc = "done" /\ ValidText(str)
    /\ Len(str) > 2 * dig_count /\ isdigit(str[1]) /\ str[1] # "0"
    /\ str[Len(str) - 1] = "0" /\ str[Len(str) - 3] = "0"
    /\ ts_result = str

\* C12: a * b and a *= b are the exact product: the buffer of
\* len(a) + len(b) words filled from the top word down holds |a| * |b| with
\* no carry lost or left over, the result is canonical, and it is non-negative
\* iff the operand signs are equal or the product is zero; a *= a likewise.
C12_ExactProduct ==
    /\ op = "mul" =>
          LET n == Len(a.dig) + Len(b.dig)
              buf == mul_outer_loop(resize(a.dig, n), b.dig, n)
          IN  /\ Len(buf) = n /\ Mag(buf) = Abs(Val(a)) * Abs(Val(b))
              /\ Val(res) = Val(a) * Val(b)
              /\ Canonical(res) /\ Len(res.dig) <= n
              /\ res.sign <=> (a.sign = b.sign \/ Val(a) * Val(b) = 0)
    /\ op = "sqr" =>
          /\ Val(res) = Val(a) * Val(a)
          /\ Canonical(res) /\ res.sign

\* a negative times a positive value, both of several words, with a carry
\* that reaches the top word of the buffer
C12_Witness ==
    /\ op = "mul" /\ ~a.sign /\ b.sign /\ Len(a.dig) >= 3 /\ Len(b.dig) >= 2
    /\ Len(res.dig) = Len(a.dig) + Len(b.dig) /\ ~res.sign
    /\ Val(res) = Val(a) * Val(b)

\* C13: in long division, at every quotient position the estimate stored in
\* a word is the true quotient digit of the remainder window or exactly one
\* greater, the trial product after at most one decrement is not larger
\* than the window, and the quotient word stored is the true digit.
C13_EstimateWithinOne ==
    (op = "div" /\ takes_long_division(a, b)) =>
        LET t == div_mod_long_trace(a, b)
        IN  \A p \in 1..Len(t) :
               LET digit == Mag(t[p].window) \div Abs(Val(b))
               IN  /\ t[p].ratio \in {digit, digit + 1}
                   /\ Mag(t[p].to_sub.dig) <= Mag(t[p].window)
                   /\ t[p].stored = digit

====
